---- MODULE Spec2Model ----
(***************************************************************************)
(* build.py: a chart book of country sheets.  The script normalizes the    *)
(* indicator configuration, resolves the economies, opens one workbook,    *)
(* writes one sheet per economy from the upstream series tables and closes *)
(* the workbook.  Python dicts are functions, lists are sequences, an      *)
(* optional value is <<>> (None) or <<v>>.                                 *)
(***************************************************************************)
EXTENDS Integers, Sequences, FiniteSets, TLC

VARIABLES
    pc,             \* position of the script: the statement that runs next
    raw,            \* the configuration document as yaml.safe_load returns it
    config,         \* the session configuration load_config returns
    sheet_list,     \* ordered dict economy id -> label, as a sequence of rows
    xls,            \* the workbook: times opened/closed, sheet names, formats
    toc,            \* the Overview sheet: the write_url calls it received
    tocRow,         \* next free row of the Overview sheet
    formats,        \* the module-level dict _formats: key -> Format object
    format_attrs,   \* the dict object that is the default of format()'s attrs
    country,        \* the worksheet of the economy being written
    cur,            \* position of the economy loop in sheet_list
    df,             \* the assembled table of the current economy, or None
    sources,        \* what is left of the iteration over the set of sources
    fetched,        \* the bulk requests issued for the current economy
    row,            \* header row of the sheet
    col,            \* column cursor of the sheet
    elems,          \* position of the rendering loop in config['yearly']
    call            \* the most recent call of format(): its key and outcome

vars == <<pc, raw, config, sheet_list, xls, toc, tocRow, formats, format_attrs,
          country, cur, df, sources, fetched, row, col, elems, call>>

---------------------------------------------------------------------------
(* Bounds of the model *)

\* longest indicator list of a periodicity group in the configuration
MaxGroup == 2
\* longest explicit economies list in the configuration
MaxEcon == 1
\* largest precision passed to format() by the registry specification
MaxPrecision == 1

---------------------------------------------------------------------------
(* Values *)

None == <<>>
Some(v) == <<v>>

\* a spreadsheet cell value: a number or a string
Num(n) == [num |-> n]
Str(s) == [str |-> s]

RECURSIVE SetToSortedSeq(_)
SetToSortedSeq(S) ==
    IF S = {} THEN <<>>
    ELSE LET m == CHOOSE x \in S : \A y \in S : x <= y
         IN  <<m>> \o SetToSortedSeq(S \ {m})

Range(s) == {s[k] : k \in DOMAIN s}

\* the elements of s in order, each kept at its first occurrence only
RECURSIVE Dedup(_)
Dedup(s) ==
    IF s = <<>> THEN <<>>
    ELSE LET init == Dedup(SubSeq(s, 1, Len(s) - 1))
             last == s[Len(s)]
         IN  IF last \in Range(init) THEN init ELSE Append(init, last)

\* all sequences over S of length at most n
SeqsUpTo(S, n) == UNION {[1..k -> S] : k \in 0..n}

---------------------------------------------------------------------------
(* format(key, wb, attrs, precision): the format registry *)

RECURSIVE Zeros(_)
Zeros(n) == IF n <= 0 THEN "" ELSE "0" \o Zeros(n - 1)

\* attrs after the precision shortcut has been applied to it
PrecisionAttrs(attrs, precision) ==
    LET a1 == [num_format |-> "#,##0"] @@ attrs
    IN  IF precision # 0
        THEN [num_format |-> a1.num_format \o "." \o Zeros(precision),
              align |-> "right"] @@ a1
        ELSE a1

\* format() as it would be without the lookup of lines 38-39: every call
\* creates a Format and stores it under the key
FormatCallNoLookup(h, key, wb, attrs, precision) ==
    LET a0 == IF attrs = None THEN h.dflt ELSE attrs[1]
        a1 == IF precision # None THEN PrecisionAttrs(a0, precision[1]) ELSE a0
        dflt1 == IF attrs = None THEN a1 ELSE h.dflt
    IN  IF wb = None
        THEN [formats |-> h.formats, dflt |-> dflt1, made |-> h.made,
              ret |-> None, raised |-> TRUE]
        ELSE LET fmt == [fid |-> Len(h.made) + 1, props |-> a1]
             IN  [formats |-> (key :> fmt) @@ h.formats,
                  dflt |-> dflt1,
                  made |-> Append(h.made, fmt),
                  ret |-> Some(fmt), raised |-> FALSE]

\* The call format(key, wb, attrs, precision) on the registry state
\* h = [formats, dflt, made]: formats is _formats, dflt the default dict of
\* attrs, made the Format objects the workbook has created.  The result adds
\* ret (the returned Format) and raised (the call ended in an exception).
FormatCall(h, key, wb, attrs, precision) ==
    IF key \in DOMAIN h.formats
    THEN [formats |-> h.formats, dflt |-> h.dflt, made |-> h.made,
          ret |-> Some(h.formats[key]), raised |-> FALSE]
    ELSE LET a0 == IF attrs = None THEN h.dflt ELSE attrs[1]
             a1 == IF precision # None THEN PrecisionAttrs(a0, precision[1])
                   ELSE a0
             dflt1 == IF attrs = None THEN a1 ELSE h.dflt
         IN  IF wb = None
             THEN [formats |-> h.formats, dflt |-> dflt1, made |-> h.made,
                   ret |-> None, raised |-> TRUE]
             ELSE LET fmt == [fid |-> Len(h.made) + 1, props |-> a1]
                  IN  [formats |-> (key :> fmt) @@ h.formats,
                       dflt |-> dflt1,
                       made |-> Append(h.made, fmt),
                       ret |-> Some(fmt), raised |-> FALSE]

Registry == [formats |-> formats, dflt |-> format_attrs, made |-> xls.formats]

\* what a call of format(key, ...) that ended as h did
Called(key, h) == Some([key |-> key, ret |-> h.ret, raised |-> h.raised])

---------------------------------------------------------------------------
(* The upstream data source and the configuration documents *)

\* database the normalizer falls back to (WDI)
DefaultSource == 2

Ids == {"NY.GDP.MKTP.KD.ZG", "SP.POP.TOTL"}

\* the record the old-style endpoint returns for an indicator (mrv=1)
Metadata(id) ==
    IF id = "NY.GDP.MKTP.KD.ZG"
    THEN [indicator |-> [id |-> id, value |-> "GDP growth (annual %)"],
          decimal |-> 1]
    ELSE [indicator |-> [id |-> id, value |-> "Population, total"],
          decimal |-> 0]

\* what the metadata probes of one run return: per indicator the list with
\* its record, or the empty list
ProbeResponses ==
    {[i \in Ids |-> IF i \in known THEN <<Metadata(i)>> ELSE <<>>] :
        known \in SUBSET Ids}

\* the economies of the upstream catalog, in its order
Catalog == <<[id |-> "USA", value |-> "United States", aggregate |-> FALSE],
             [id |-> "WLD", value |-> "World", aggregate |-> TRUE]>>

EconIds == {Catalog[k].id : k \in DOMAIN Catalog}

Periods == {2019, 2020}
Values == {3}

\* a field value someone may write into the configuration
Given(f) ==
    CASE f = "name" -> "Custom label"
      [] f = "source" -> 15
      [] f = "multiplier" -> 2
      [] f = "precision" -> 2

\* an entry of an indicator list: a bare id, or a dict with an id and any of
\* the optional fields F
Bare(id) == [str |-> id]
Dict(d) == [dict |-> d]
Entries(F) ==
    {Bare(i) : i \in Ids}
    \cup {Dict([id |-> i] @@ [f \in S |-> Given(f)]) : i \in Ids, S \in SUBSET F}

AllFields == {"name", "source", "multiplier", "precision"}

\* configuration documents: the indicator list of the yearly group over the
\* entries E, the other two groups both empty or both one bare id, the
\* economies listed or left to the catalog with or without its aggregates
EconomyChoices(economies) ==
    UNION {{<<e, opt>> : opt \in IF e = <<>> THEN {<<>>, [aggregates |-> TRUE]}
                                 ELSE {<<>>}} : e \in economies}

Documents(E, n, economies) ==
    {[yearly |-> y, quarterly |-> o[1], monthly |-> o[2],
      economies |-> eo[1], options |-> eo[2]] :
        y \in SeqsUpTo(E, n),
        o \in {<<<<>>, <<>>>>, <<<<Bare("SP.POP.TOTL")>>, <<Bare("NY.GDP.MKTP.KD.ZG")>>>>},
        eo \in EconomyChoices(economies)}

---------------------------------------------------------------------------
(* load_config *)

DictGet(d, k, default) == IF k \in DOMAIN d THEN d[k] ELSE default

\* normalize's loop body as it would be if it assigned the multiplier
\* without the test of line 76
NormalizeElemResetsMultiplier(e, attrs) ==
    LET elem0 == IF "str" \in DOMAIN e THEN [id |-> e.str] ELSE e.dict
        elem1 == IF "name" \notin DOMAIN elem0
                 THEN elem0 @@ [name |-> attrs.indicator.value] ELSE elem0
        elem2 == IF "source" \notin DOMAIN elem1
                 THEN elem1 @@ [source |-> DefaultSource] ELSE elem1
        elem3 == [multiplier |-> 1] @@ elem2
        elem4 == IF "precision" \notin DOMAIN elem3
                 THEN elem3 @@ [precision |-> attrs.decimal] ELSE elem3
    IN  elem4

\* one iteration of normalize's loop on entry e with the probe result attrs
NormalizeElem(e, attrs) ==
    LET elem0 == IF "str" \in DOMAIN e THEN [id |-> e.str] ELSE e.dict
        elem1 == IF "name" \notin DOMAIN elem0
                 THEN elem0 @@ [name |-> attrs.indicator.value] ELSE elem0
        elem2 == IF "source" \notin DOMAIN elem1
                 THEN elem1 @@ [source |-> DefaultSource] ELSE elem1
        elem3 == IF "multiplier" \notin DOMAIN elem2
                 THEN elem2 @@ [multiplier |-> 1] ELSE elem2
        elem4 == IF "precision" \notin DOMAIN elem3
                 THEN elem3 @@ [precision |-> attrs.decimal] ELSE elem3
    IN  elem4

EntryId(e) == IF "str" \in DOMAIN e THEN e.str ELSE e.dict.id

\* normalize(i) with the probes answered by probe: the list it returns, or
\* raised when a probe returned the empty list (list(...)[0])
RECURSIVE normalize(_, _)
normalize(i, probe) ==
    IF i = <<>> THEN [raised |-> FALSE, ilist |-> <<>>]
    ELSE LET init == normalize(SubSeq(i, 1, Len(i) - 1), probe)
             e == i[Len(i)]
         IN  IF init.raised \/ probe[EntryId(e)] = <<>>
             THEN [raised |-> TRUE, ilist |-> <<>>]
             ELSE [raised |-> FALSE,
                   ilist |-> Append(init.ilist,
                                    NormalizeElem(e, probe[EntryId(e)][1]))]

\* wb.economy.DataFrame(skipAggs=...).index
CatalogIndex(skipAggs) ==
    LET keep == {k \in DOMAIN Catalog : ~(skipAggs /\ Catalog[k].aggregate)}
        pos == SetToSortedSeq(keep)
    IN  [k \in DOMAIN pos |-> Catalog[pos[k]].id]

LoadConfig ==
    /\ pc = "load_config"
    /\ \E probe \in ProbeResponses :
        LET options == raw.options
            y == normalize(raw.yearly, probe)
            q == normalize(raw.quarterly, probe)
            m == normalize(raw.monthly, probe)
        IN  IF y.raised \/ q.raised \/ m.raised
            THEN /\ pc' = "raised"
                 /\ UNCHANGED config
            ELSE /\ pc' = "economy_list"
                 /\ config' =
                      [options |-> options,
                       yearly |-> y.ilist,
                       quarterly |-> q.ilist,
                       monthly |-> m.ilist,
                       economies |->
                          IF raw.economies = <<>>
                          THEN CatalogIndex(~DictGet(options, "aggregates", FALSE))
                          ELSE raw.economies]
    /\ UNCHANGED <<raw, sheet_list, xls, toc, tocRow, formats, format_attrs,
                   country, cur, df, sources, fetched, row, col, elems, call>>

---------------------------------------------------------------------------
(* Worksheets and tables *)

NewSheet(name) ==
    [name |-> name, cells |-> <<>>, widths |-> <<>>, rows |-> <<>>]

\* worksheet.write(r, c, value, fmt)
Write(ws, r, c, value, fmt) ==
    [ws EXCEPT !.cells = (<<r, c>> :> [value |-> value, format |-> fmt]) @@ @]

\* worksheet.write_column(r, c, data, fmt): data[k] goes to row r + k - 1
RECURSIVE WriteColumn(_, _, _, _, _)
WriteColumn(ws, r, c, data, fmt) ==
    IF data = <<>> THEN ws
    ELSE WriteColumn(Write(ws, r, c, Head(data), fmt), r + 1, c, Tail(data), fmt)

\* the column of table t for indicator id: a value or None (NaN) per period
Column(t, id) ==
    [k \in DOMAIN t.index |->
        IF <<t.index[k], id>> \in DOMAIN t.data
        THEN Some(t.data[<<t.index[k], id>>]) ELSE None]

\* series * multiplier: NaN stays NaN
Times(s, multiplier) ==
    [k \in DOMAIN s |-> IF s[k] = None THEN None ELSE Some(s[k][1] * multiplier)]

\* series.fillna(''): the cells of the series
FillNa(s) ==
    [k \in DOMAIN s |-> IF s[k] = None THEN Str("") ELSE Num(s[k][1])]

\* the series dict as it would be without the filter on the source
SeriesKeysUnfiltered(group, source) ==
    Dedup([k \in DOMAIN group |-> group[k].id])

\* the keys of the dict {row['id']: row for row in group if row.source == source}
SeriesKeys(group, source) ==
    LET rows == SelectSeq(group, LAMBDA r : r.source = source)
    IN  Dedup([k \in DOMAIN rows |-> rows[k].id])

\* the elements of the set S of small integers ordered by v % 8: the slot
\* of v in the eight-slot hash table of a small set (the source values 2 and
\* 15 used here are distinct modulo 8)
RECURSIVE SlotOrder(_)
SlotOrder(S) ==
    IF S = {} THEN <<>>
    ELSE LET m == CHOOSE x \in S : \A y \in S : x % 8 <= y % 8
         IN  <<m>> \o SlotOrder(S \ {m})

\* the orders in which "for source in set(map(lambda x: x['source'], group))"
\* may visit the sources: the language leaves the order of a set open; an
\* interpreter whose sets keep insertion order visits them as they first
\* appear in the group, one with hashed sets visits them in slot order
SourceIterations(group) ==
    LET inserted == [k \in DOMAIN group |-> group[k].source]
    IN  {Dedup(inserted), SlotOrder(Range(inserted))}

\* the tables wb.data.DataFrame(series, economy, db=source, columns='series')
\* may return: any periods, any of the requested series as columns, a value
\* or nothing for each period and column
Tables(series) ==
    UNION {
      UNION {
        {[index |-> SetToSortedSeq(P),
          columns |-> SelectSeq(series, LAMBDA i : i \in C),
          data |-> d] : d \in UNION {[D -> Values] : D \in SUBSET (P \X C)}} :
        C \in SUBSET Range(series)} :
      P \in SUBSET Periods}

\* df.join(df2) with pandas' default how='left': the periods of df only
JoinLeft(t, t2) ==
    LET both == t.data @@ t2.data
        kept == {pi \in DOMAIN both : pi[1] \in Range(t.index)}
    IN  [index |-> t.index,
         columns |-> t.columns \o t2.columns,
         data |-> [pi \in kept |-> both[pi]]]

\* df.join(df2, how='outer') when no column is in both
Join(t, t2) ==
    [index |-> SetToSortedSeq(Range(t.index) \cup Range(t2.index)),
     columns |-> t.columns \o t2.columns,
     data |-> t.data @@ t2.data]

\* the rendering loop as it would be without the test of line 144
PresentAlways(elem, t) == TRUE

\* elem['id'] in df.columns
Present(elem, t) == elem.id \in Range(t.columns)

---------------------------------------------------------------------------
(* The script *)

\* the Overview cursor as it would be without line 125
NextTocRowStuck(r) == r

\* tocRow += 1
NextTocRow(r) == r + 1

\* sheet_list[row['id']] = row['value'] over wb.economy.list(economies):
\* a key keeps the position of its first insertion
SheetList(economies) ==
    LET ids == Dedup(economies)
        label(id) == (CHOOSE r \in Range(Catalog) : r.id = id).value
    IN  [k \in DOMAIN ids |-> [id |-> ids[k], value |-> label(ids[k])]]

EconomyList ==
    /\ pc = "economy_list"
    /\ sheet_list' = SheetList(config.economies)
    /\ pc' = "workbook"
    /\ UNCHANGED <<raw, config, xls, toc, tocRow, formats, format_attrs,
                   country, cur, df, sources, fetched, row, col, elems, call>>

\* xlsxwriter.Workbook(FILE), the Overview sheet and the four named formats
OpenWorkbook ==
    /\ pc = "workbook"
    /\ LET h0 == [formats |-> formats, dflt |-> format_attrs, made |-> <<>>]
           h1 == FormatCall(h0, "bold", Some("xls"), Some([bold |-> 1]), None)
           h2 == FormatCall(h1, "colhdr", Some("xls"),
                            Some([bg_color |-> "#E0E0E0", bold |-> 1,
                                  text_wrap |-> 1]), None)
           h3 == FormatCall(h2, "colhdr2", Some("xls"),
                            Some([bg_color |-> "#E0E0E0", bold |-> 1,
                                  text_wrap |-> 1, align |-> "right"]), None)
           h4 == FormatCall(h3, "ralign", Some("xls"),
                            Some([align |-> "right"]), None)
       IN  /\ xls' = [opened |-> xls.opened + 1, closed |-> xls.closed,
                      sheets |-> <<"Overview">>, formats |-> h4.made]
           /\ formats' = h4.formats
           /\ format_attrs' = h4.dflt
           /\ call' = Called("ralign", h4)
    /\ toc' = <<>>
    /\ tocRow' = 1
    /\ cur' = 1
    /\ pc' = "economy"
    /\ UNCHANGED <<raw, config, sheet_list, country, df, sources, fetched,
                   row, col, elems>>

\* lines 120-130: the sheet of the next economy, its title, its Overview
\* link, and the set of sources the assembler is about to iterate
BeginSheet ==
    /\ pc = "economy"
    /\ cur <= Len(sheet_list)
    /\ LET v == sheet_list[cur].value
           h1 == FormatCall(Registry, "bold", None, None, None)
           h2 == FormatCall(h1, "colhdr", None, None, None)
           ws1 == Write(NewSheet(v), 0, 0, Str(v), h1.ret)
           ws2 == [ws1 EXCEPT !.rows = (1 :> [height |-> 32, format |-> h2.ret]) @@ @]
       IN  IF h1.raised \/ h2.raised
           THEN /\ pc' = "raised"
                /\ call' = IF h1.raised THEN Called("bold", h1)
                                         ELSE Called("colhdr", h2)
                /\ UNCHANGED <<xls, toc, tocRow, formats, format_attrs, country,
                               df, sources, fetched>>
           ELSE /\ xls' = [xls EXCEPT !.sheets = Append(@, v)]
                /\ country' = ws2
                /\ toc' = Append(toc, [row |-> tocRow, col |-> 0,
                                       url |-> "internal:'" \o v \o "'!A1",
                                       string |-> v])
                /\ tocRow' = NextTocRow(tocRow)
                /\ call' = Called("colhdr", h2)
                /\ formats' = h2.formats
                /\ format_attrs' = h2.dflt
                /\ df' = None
                /\ fetched' = <<>>
                /\ sources' \in SourceIterations(config.yearly)
                /\ pc' = "assemble"
    /\ UNCHANGED <<raw, config, sheet_list, cur, row, col, elems>>

\* lines 131-136: one iteration of the loop over the sources
FetchSource ==
    /\ pc = "assemble"
    /\ sources # <<>>
    /\ LET source == Head(sources)
           series == SeriesKeys(config.yearly, source)
       IN  \E df2 \in Tables(series) :
             /\ fetched' = Append(fetched, [series |-> series,
                                            economy |-> sheet_list[cur].id,
                                            db |-> source,
                                            result |-> Some(df2)])
             /\ IF df = None
                THEN /\ df' = Some(df2)
                     /\ pc' = "assemble"
                ELSE IF Range(df[1].columns) \cap Range(df2.columns) # {}
                     THEN /\ df' = df
                          /\ pc' = "raised"
                     ELSE /\ df' = Some(Join(df[1], df2))
                          /\ pc' = "assemble"
    /\ sources' = Tail(sources)
    /\ UNCHANGED <<raw, config, sheet_list, xls, toc, tocRow, formats,
                   format_attrs, country, cur, row, col, elems, call>>

\* wb.data.DataFrame raises: the upstream request failed
FetchFail ==
    /\ pc = "assemble"
    /\ sources # <<>>
    /\ fetched' = Append(fetched,
                         [series |-> SeriesKeys(config.yearly, Head(sources)),
                          economy |-> sheet_list[cur].id,
                          db |-> Head(sources),
                          result |-> None])
    /\ pc' = "raised"
    /\ UNCHANGED <<raw, config, sheet_list, xls, toc, tocRow, formats,
                   format_attrs, country, cur, df, sources, row, col, elems,
                   call>>

\* lines 138-142: the period column; df.index of None raises
WriteIndex ==
    /\ pc = "assemble"
    /\ sources = <<>>
    /\ IF df = None
       THEN /\ pc' = "raised"
            /\ country' = Write(country, 1, 0, Str("Year"), None)
            /\ col' = 0
            /\ UNCHANGED elems
       ELSE /\ country' =
                 WriteColumn(Write(country, 1, 0, Str("Year"), None), 2, 0,
                             [k \in DOMAIN df[1].index |-> Num(df[1].index[k])],
                             None)
            /\ col' = 1
            /\ elems' = 1
            /\ pc' = "columns"
    /\ row' = 1
    /\ UNCHANGED <<raw, config, sheet_list, xls, toc, tocRow, formats,
                   format_attrs, cur, df, sources, fetched, call>>

\* lines 143-153: one iteration of the loop over config['yearly']
RenderColumn ==
    /\ pc = "columns"
    /\ LET elem == config.yearly[elems]
           h1 == FormatCall(Registry, "colhdr2", None, None, None)
           h2 == FormatCall(h1, "n" \o ToString(elem.precision), Some("xls"),
                            None, Some(elem.precision))
           ws1 == [country EXCEPT !.widths = (col :> 13) @@ @]
           ws2 == Write(ws1, row, col, Str(elem.name), h1.ret)
           ws3 == WriteColumn(ws2, row + 1, col,
                              FillNa(Times(Column(df[1], elem.id), elem.multiplier)),
                              h2.ret)
           last == elems = Len(config.yearly)
       IN  IF Present(elem, df[1])
           THEN IF h1.raised \/ h2.raised
                THEN /\ pc' = "raised"
                     /\ call' = IF h1.raised THEN Called("colhdr2", h1)
                                ELSE Called("n" \o ToString(elem.precision), h2)
                     /\ UNCHANGED <<xls, formats, format_attrs, country, col,
                                    elems, cur>>
                ELSE /\ country' = ws3
                     /\ xls' = [xls EXCEPT !.formats = h2.made]
                     /\ formats' = h2.formats
                     /\ format_attrs' = h2.dflt
                     /\ call' = Called("n" \o ToString(elem.precision), h2)
                     /\ col' = col + 1
                     /\ elems' = elems + 1
                     /\ pc' = IF last THEN "economy" ELSE "columns"
                     /\ cur' = IF last THEN cur + 1 ELSE cur
           ELSE /\ elems' = elems + 1
                /\ pc' = IF last THEN "economy" ELSE "columns"
                /\ cur' = IF last THEN cur + 1 ELSE cur
                /\ UNCHANGED <<xls, formats, format_attrs, country, col, call>>
    /\ UNCHANGED <<raw, config, sheet_list, toc, tocRow, df, sources, fetched,
                   row>>

\* xls.close() as it would be inside the economy loop: after the first sheet
CloseInLoop ==
    /\ pc = "economy"
    /\ cur > 1
    /\ xls' = [xls EXCEPT !.closed = @ + 1]
    /\ pc' = "done"
    /\ UNCHANGED <<raw, config, sheet_list, toc, tocRow, formats, format_attrs,
                   country, cur, df, sources, fetched, row, col, elems, call>>

\* line 155
Close ==
    /\ pc = "economy"
    /\ cur > Len(sheet_list)
    /\ xls' = [xls EXCEPT !.closed = @ + 1]
    /\ pc' = "done"
    /\ UNCHANGED <<raw, config, sheet_list, toc, tocRow, formats, format_attrs,
                   country, cur, df, sources, fetched, row, col, elems, call>>

\* the entries of the documents the script is run on
RunEntries ==
    {Bare(i) : i \in Ids}
    \cup {Dict([id |-> i, source |-> Given("source"),
                multiplier |-> Given("multiplier")]) : i \in Ids}

InitWith(documents) ==
    /\ pc = "load_config"
    /\ raw \in documents
    /\ config = <<>>
    /\ sheet_list = <<>>
    /\ xls = [opened |-> 0, closed |-> 0, sheets |-> <<>>, formats |-> <<>>]
    /\ toc = <<>>
    /\ tocRow = 0
    /\ formats = <<>>
    /\ format_attrs = <<>>
    /\ country = NewSheet("")
    /\ cur = 0
    /\ df = None
    /\ sources = <<>>
    /\ fetched = <<>>
    /\ row = 0
    /\ col = 0
    /\ elems = 0
    /\ call = None

Init ==
    InitWith(Documents(RunEntries, MaxGroup, SeqsUpTo(EconIds, MaxEcon)))

Next ==
    \/ LoadConfig
    \/ EconomyList
    \/ OpenWorkbook
    \/ BeginSheet
    \/ FetchSource
    \/ FetchFail
    \/ WriteIndex
    \/ RenderColumn
    \/ Close

Spec == Init /\ [][Next]_vars

---------------------------------------------------------------------------
(* load_config on its own, over every shape of entry *)

InitNormalize ==
    InitWith(Documents(Entries(AllFields), MaxGroup, {<<"USA">>}))

SpecNormalize == InitNormalize /\ [][LoadConfig]_vars

---------------------------------------------------------------------------
(* format() on its own, called in any order with any arguments *)

NumericKeys == {"n" \o ToString(p) : p \in 0..MaxPrecision}

\* the argument lists explored: a named format defined with its attributes,
\* any format looked up by its key alone, and a numeric format asked for
\* with any precision
FormatCalls ==
    {[key |-> "bold", wb |-> Some("xls"), attrs |-> Some(a), precision |-> None] :
        a \in {[bold |-> 1], [align |-> "right"]}}
    \cup {[key |-> k, wb |-> None, attrs |-> None, precision |-> None] :
            k \in {"bold"} \cup NumericKeys}
    \cup {[key |-> k, wb |-> Some("xls"), attrs |-> None, precision |-> Some(p)] :
            k \in NumericKeys, p \in 0..MaxPrecision}

\* one call format(key, wb, attrs, precision); an exception ends the program
FormatStep ==
    /\ pc = "format"
    /\ \E c \in FormatCalls :
         LET h == FormatCall(Registry, c.key, c.wb, c.attrs, c.precision)
         IN  /\ formats' = h.formats
             /\ format_attrs' = h.dflt
             /\ xls' = [xls EXCEPT !.formats = h.made]
             /\ call' = Called(c.key, h)
             /\ pc' = IF h.raised THEN "raised" ELSE "format"
    /\ UNCHANGED <<raw, config, sheet_list, toc, tocRow, country, cur, df,
                   sources, fetched, row, col, elems>>

\* the module is loaded and a workbook exists
InitFormat ==
    /\ pc = "format"
    /\ raw = <<>>
    /\ config = <<>>
    /\ sheet_list = <<>>
    /\ xls = [opened |-> 1, closed |-> 0, sheets |-> <<>>, formats |-> <<>>]
    /\ toc = <<>>
    /\ tocRow = 0
    /\ formats = <<>>
    /\ format_attrs = <<>>
    /\ country = NewSheet("")
    /\ cur = 0
    /\ df = None
    /\ sources = <<>>
    /\ fetched = <<>>
    /\ row = 0
    /\ col = 0
    /\ elems = 0
    /\ call = None

SpecFormat == InitFormat /\ [][FormatStep]_vars

---------------------------------------------------------------------------
(* Properties *)

Groups == {"yearly", "quarterly", "monthly"}

\* load_config has returned
Loaded == DOMAIN config # {}

\* the rendering loop of an economy has ended; country, df and fetched are
\* still those of that economy
SheetDone == pc \in {"economy", "done"} /\ cur > 1

\* the economy whose sheet country is
Current == IF SheetDone THEN cur - 1 ELSE cur

Cells == country.cells
Column0Rows == {rc[1] : rc \in {x \in DOMAIN Cells : x[2] = 0 /\ x[1] >= 2}}
ColumnsUsed == {rc[2] : rc \in DOMAIN Cells}

\* the database of each bulk request, in the order of the requests
FetchedDbs == [k \in DOMAIN fetched |-> fetched[k].db]

\* the sources of a group in the order of their first appearance
FirstAppearance(group) == Dedup([k \in DOMAIN group |-> group[k].source])

IdsOfSource(group, source) ==
    {group[k].id : k \in {j \in DOMAIN group : group[j].source = source}}

(* C1: when the yearly group is empty the economy is processed without any
   error: no run whose normalized yearly list is empty ends in an exception. *)
C1_EmptyGroupNoError ==
    ~(Loaded /\ config.yearly = <<>> /\ pc = "raised")

(* C2: for every economy the assembler is run for each of the three
   periodicity groups: when the sheet of an economy is complete, every
   descriptor of every group has been requested from its database. *)
C2_EveryGroupFetched ==
    SheetDone =>
        \A g \in Groups : \A k \in DOMAIN config[g] :
            \E f \in DOMAIN fetched :
                /\ fetched[f].db = config[g][k].source
                /\ config[g][k].id \in Range(fetched[f].series)

(* C3 as stated: the bulk requests of an economy are issued one per distinct
   source in the order in which the sources first appear in the group. *)
C3_FetchesInFirstAppearanceOrder ==
    (Loaded /\ pc \in {"assemble", "columns"}) =>
        FetchedDbs = SubSeq(FirstAppearance(config.yearly), 1, Len(fetched))

(* C3 as amended: the bulk requests of an economy are for pairwise distinct
   sources of the group, each asks for exactly the ids of the descriptors
   with that source, for the economy of the sheet, and when the loop has
   ended every source of the group has been requested once; the order is
   that of the iteration over the set of sources. *)
C3_OneFetchPerSource ==
    (Loaded /\ fetched # <<>>) =>
        /\ \A j, k \in DOMAIN fetched : j # k => fetched[j].db # fetched[k].db
        /\ \A k \in DOMAIN fetched :
            /\ fetched[k].db \in {config.yearly[i].source : i \in DOMAIN config.yearly}
            /\ Range(fetched[k].series) = IdsOfSource(config.yearly, fetched[k].db)
            /\ Len(fetched[k].series) = Cardinality(Range(fetched[k].series))
            /\ fetched[k].economy = sheet_list[Current].id
        /\ (pc = "columns" \/ SheetDone) =>
            Range(FetchedDbs) = {config.yearly[i].source : i \in DOMAIN config.yearly}

\* two sources were requested, the one that appears second in the group first
C3_Witness ==
    /\ pc = "columns"
    /\ Len(fetched) = 2
    /\ FetchedDbs # FirstAppearance(config.yearly)

\* the descriptor the specification prescribes for a configuration entry
Descriptor(e) ==
    LET given == IF "str" \in DOMAIN e THEN [id |-> e.str] ELSE e.dict
        default == [name |-> Metadata(given.id).indicator.value,
                    source |-> 2,
                    multiplier |-> 1,
                    precision |-> Metadata(given.id).decimal]
    IN  [f \in {"id", "name", "source", "multiplier", "precision"} |->
            IF f \in DOMAIN given THEN given[f] ELSE default[f]]

(* C4: when every probe returns a record, each normalized list has the
   length and order of its input, entry k being input entry k with every
   supplied field unchanged and every missing field filled with its default;
   a fully specified descriptor comes out as it went in. *)
C4_NormalizeFillsDefaults ==
    pc = "economy_list" =>
        \A g \in Groups :
            /\ Len(config[g]) = Len(raw[g])
            /\ \A k \in DOMAIN raw[g] :
                /\ config[g][k] = Descriptor(raw[g][k])
                /\ DOMAIN config[g][k] = {"id", "name", "source", "multiplier", "precision"}
                /\ ("dict" \in DOMAIN raw[g][k]
                      /\ DOMAIN raw[g][k].dict = DOMAIN config[g][k])
                    => config[g][k] = raw[g][k].dict

\* a bare id followed by a fully specified descriptor of the same id
C4_Witness ==
    /\ pc = "economy_list"
    /\ Len(raw.yearly) = 2
    /\ "str" \in DOMAIN raw.yearly[1]
    /\ "dict" \in DOMAIN raw.yearly[2]
    /\ DOMAIN raw.yearly[2].dict = {"id", "name", "source", "multiplier", "precision"}
    /\ config.yearly[1].id = config.yearly[2].id
    /\ config.yearly[1].multiplier = 1
    /\ config.yearly[2].multiplier = 2

(* C5: the workbook is opened at most once and only after load_config has
   returned, closed at most once and only when the sheet of every resolved
   economy has been written, and never closed in a run that ended in an
   exception. *)
C5_WorkbookLifecycle ==
    /\ xls.opened <= 1
    /\ xls.closed <= 1
    /\ xls.opened = 1 => (Loaded /\ pc \notin {"load_config", "economy_list", "workbook"})
    /\ xls.closed = 1 =>
        /\ xls.opened = 1
        /\ pc = "done"
        /\ cur = Len(sheet_list) + 1
        /\ xls.sheets = <<"Overview">> \o [k \in DOMAIN sheet_list |-> sheet_list[k].value]
    /\ pc = "done" => xls.closed = 1
    /\ pc = "raised" => xls.closed = 0

\* a run over two economies has closed its workbook
C5_Witness ==
    /\ pc = "done"
    /\ xls.closed = 1
    /\ Len(sheet_list) = 2

(* C6: every key is created through the workbook at most once; a call with
   a registered key returns the handle stored for it, creates nothing and
   leaves the registry and the default attributes as they were; no entry of
   the registry is ever replaced or removed. *)
C6_FormatCreatedOnce ==
    /\ [](/\ Len(xls.formats) = Cardinality(DOMAIN formats)
          /\ \A k \in DOMAIN formats : formats[k] \in Range(xls.formats)
          /\ \A i \in DOMAIN xls.formats : xls.formats[i].fid = i)
    /\ [][/\ \A k \in DOMAIN formats :
                k \in DOMAIN formats' /\ formats'[k] = formats[k]
          /\ (call' # None /\ call'[1].key \in DOMAIN formats) =>
                /\ call'[1].ret = Some(formats[call'[1].key])
                /\ ~call'[1].raised
                /\ xls'.formats = xls.formats
                /\ formats' = formats
                /\ format_attrs' = format_attrs]_vars

\* a call returned a handle that an earlier call had created
C6_Witness ==
    /\ call # None
    /\ ~call[1].raised
    /\ call[1].ret[1].fid < Len(xls.formats)

\* the descriptors handled so far by the rendering loop whose id is a column
\* of the table, in configuration order
Shown ==
    SelectSeq(SubSeq(config.yearly, 1, elems - 1),
              LAMBDA e : e.id \in Range(df[1].columns))

\* the cells the table prescribes for a descriptor, per position of the index
TableCells(e) ==
    [k \in DOMAIN df[1].index |->
        IF <<df[1].index[k], e.id>> \in DOMAIN df[1].data
        THEN Num(df[1].data[<<df[1].index[k], e.id>>] * e.multiplier)
        ELSE Str("")]

(* C7: the indicator columns of a sheet are the descriptors whose id is a
   column of the table, in configuration order, in the columns 1..k without
   a gap; a descriptor whose id is absent writes nothing and does not move
   the column cursor. *)
C7_ColumnsContiguous ==
    (pc = "columns" \/ SheetDone) =>
        /\ col = Len(Shown) + 1
        /\ ColumnsUsed = 0..Len(Shown)
        /\ DOMAIN country.widths = 1..Len(Shown)
        /\ \A j \in 1..Len(Shown) :
            /\ Cells[<<1, j>>].value = Str(Shown[j].name)
            /\ \A k \in DOMAIN df[1].index :
                Cells[<<k + 1, j>>].value = TableCells(Shown[j])[k]

\* the first descriptor is absent from the table and the second one is
\* rendered in column 1
C7_Witness ==
    /\ SheetDone
    /\ Len(config.yearly) = 2
    /\ config.yearly[1].id \notin Range(df[1].columns)
    /\ config.yearly[2].id \in Range(df[1].columns)
    /\ col = 2
    /\ Len(df[1].index) = 2

DistinctIds(group) ==
    \A j, k \in DOMAIN group : j # k => group[j].id # group[k].id

\* the tables the bulk requests of the economy returned
Results == {fetched[k].result[1] : k \in DOMAIN fetched}

(* C8: for a group of pairwise distinct ids, the period rows of a complete
   sheet are the union of the period indices of the tables the bulk requests
   returned, and the cell of a period and a rendered indicator holds the
   returned value times the multiplier when one was returned for them and
   the empty string otherwise. *)
C8_OuterJoinAndBlanks ==
    (SheetDone /\ DistinctIds(config.yearly)) =>
        LET periods == UNION {Range(r.index) : r \in Results}
            shown == SelectSeq(config.yearly,
                               LAMBDA e : \E r \in Results : e.id \in Range(r.columns))
        IN  /\ Column0Rows = 2..(Cardinality(periods) + 1)
            /\ {Cells[<<r, 0>>].value : r \in Column0Rows} = {Num(p) : p \in periods}
            /\ col = Len(shown) + 1
            /\ \A j \in 1..Len(shown) : \A r \in Column0Rows :
                LET p == Cells[<<r, 0>>].value.num
                    with == {t \in Results : <<p, shown[j].id>> \in DOMAIN t.data}
                IN  /\ <<r, j>> \in DOMAIN Cells
                    /\ Cells[<<r, j>>].value =
                         IF with = {}
                         THEN Str("")
                         ELSE Num((CHOOSE t \in with : TRUE).data[<<p, shown[j].id>>]
                                  * shown[j].multiplier)

\* two sources returned the periods [2019] and [2020]; the sheet has both
\* rows, a multiplied value and a blank
C8_Witness ==
    /\ SheetDone
    /\ DistinctIds(config.yearly)
    /\ Len(fetched) = 2
    /\ fetched[1].result[1].index = <<2019>>
    /\ fetched[2].result[1].index = <<2020>>
    /\ Column0Rows = {2, 3}
    /\ col = 3
    /\ \E rc \in DOMAIN Cells : rc[1] >= 2 /\ Cells[rc].value = Str("")
    /\ \E rc \in DOMAIN Cells : rc[1] >= 2 /\ Cells[rc].value = Num(6)

(* C9: the Overview cursor starts at 1 and advances by one per economy; the
   link of the k-th economy is written once, at row k, to cell A1 of that
   economy's sheet, the links point at distinct sheets, and a finished run
   has one link per economy. *)
C9_OverviewRows ==
    xls.opened = 1 =>
        LET n == IF pc = "economy" \/ pc = "done" THEN cur - 1 ELSE cur
        IN  /\ tocRow = n + 1
            /\ Len(toc) = n
            /\ \A k \in DOMAIN toc :
                /\ toc[k].row = k
                /\ toc[k].col = 0
                /\ toc[k].url = "internal:'" \o sheet_list[k].value \o "'!A1"
                /\ toc[k].string = sheet_list[k].value
            /\ \A j, k \in DOMAIN toc : j # k => toc[j].url # toc[k].url
            /\ pc = "done" => n = Len(sheet_list)

\* a finished run over two economies
C9_Witness ==
    /\ pc = "done"
    /\ Len(toc) = 2
    /\ tocRow = 3

(* C10: the numeric format created for precision p has the grouped-integer
   pattern followed by exactly p decimal zeros and is right-aligned if and
   only if p > 0, whatever formats were created before it. *)
C10_NumericFormatFromArguments ==
    \A p \in 0..2 :
        LET key == "n" \o ToString(p)
        IN  key \in DOMAIN formats =>
              /\ formats[key].props.num_format =
                    "#,##0" \o (IF p > 0 THEN "." \o Zeros(p) ELSE "")
              /\ ("align" \in DOMAIN formats[key].props) <=> (p > 0)

====
